---------------------------- MODULE Spec2Model ----------------------------
(***************************************************************************)
(* Model of drivers/staging/zram/zram_sysfs.c: the per-cpu statistics      *)
(* reader zram_get_stat and the sysfs control plane of a zram device       *)
(* (disksize, initstate, reset and the statistics attributes).             *)
(*                                                                         *)
(* Every handler is a little process with a program counter.  A handler    *)
(* touches the shared descriptor (struct zram), the gendisk and the        *)
(* per-cpu counters at several places; each such access is one step.       *)
(*   Spec      every operation runs to completion before the next starts   *)
(*             (the contract of one call).                                 *)
(*   SpecCtl   the control-plane handlers interleave step by step.         *)
(*   SpecStat  the counter writers and zram_get_stat interleave.           *)
(*   SpecStatFair  SpecStat, every cpu running on.                         *)
(*   SpecShow  the statistics attributes, one call at a time.              *)
(*   SpecAll   every operation of the layer, one at a time.                *)
(*   SpecReg   dev_to_zram over the tables of devices.                     *)
(***************************************************************************)
EXTENDS Integers, Sequences, FiniteSets, TLC

(***************************************************************************)
(* Bounds of the model.                                                    *)
(***************************************************************************)
\* number of counter updates (zram_add_stat calls) in one behaviour
MaxIncs == 2
\* largest number of holders of the block device
MaxHolders == 2
\* a 64-bit counter is two machine words; a word has HalfBits bits here
HalfBits == 8
\* largest number of pages of the memory pool
MaxPoolPages == 1
\* largest num_devices
MaxDevices == 3

(***************************************************************************)
(* Program constants.                                                      *)
(***************************************************************************)
PAGE_SHIFT == 12
SECTOR_SHIFT == 9
EBUSY == 16
EINVAL == 22
\* for_each_possible_cpu: the cpus 1..NR_CPUS
NR_CPUS == 2

Pow2(n) == 2 ^ n
PAGE_SIZE == Pow2(PAGE_SHIFT)

CPUS == 1 .. NR_CPUS
\* the statistics the model follows, of enum zram_stats_index
ZRAM_STATS == {"ZRAM_STAT_NUM_READS", "ZRAM_STAT_PAGES_STORED",
               "ZRAM_STAT_PAGES_EXPAND"}
\* the deltas of zram_stat_inc, zram_stat_dec
Deltas == {-1, 1}

(***************************************************************************)
(* The payloads of a sysfs write: the bytes of buf, one string per byte.   *)
(***************************************************************************)
Payloads ==
    { << >>,
      <<"0">>,
      <<"1", "0", "0">>,
      <<"4", "0", "9", "7">>,
      <<"8", "1", "9", "2", "\n">>,
      <<"4", "x">> }

Digits == {"0", "1", "2", "3", "4", "5", "6", "7", "8", "9"}

DigitVal(ch) ==
    CASE ch = "0" -> 0 [] ch = "1" -> 1 [] ch = "2" -> 2 [] ch = "3" -> 3
      [] ch = "4" -> 4 [] ch = "5" -> 5 [] ch = "6" -> 6 [] ch = "7" -> 7
      [] ch = "8" -> 8 [] ch = "9" -> 9

\* simple_strtoull: the number of leading digits of cp (the tail's offset)
RECURSIVE DigitRun(_)
DigitRun(cp) ==
    IF cp = << >> \/ Head(cp) \notin Digits THEN 0 ELSE 1 + DigitRun(Tail(cp))

\* simple_strtoull: the value of the first n bytes of cp, base 10
RECURSIVE DigitsValue(_, _)
DigitsValue(cp, n) ==
    IF n = 0 THEN 0
    ELSE 10 * DigitsValue(cp, n - 1) + DigitVal(cp[n])

(***************************************************************************)
(* strict_strtoull(cp, 10, res) and strict_strtoul: the whole string must  *)
(* be a decimal number, with at most one trailing newline.  res is the     *)
(* value *res holds on entry; on failure *res is left as it was.           *)
(***************************************************************************)
strict_strtoull(cp, res) ==
    LET len  == Len(cp)
        tail == DigitRun(cp)
    IN  IF len = 0 \/ tail = 0 THEN [ret |-> -EINVAL, res |-> res]
        ELSE IF tail = len \/ (len = tail + 1 /\ cp[len] = "\n")
             THEN [ret |-> 0, res |-> DigitsValue(cp, tail)]
             ELSE [ret |-> -EINVAL, res |-> res]

\* x & PAGE_MASK: the low PAGE_SHIFT bits cleared
AndPageMask(x) == (x \div PAGE_SIZE) * PAGE_SIZE

\* x >> n
Shr(x, n) == x \div Pow2(n)


\* sprintf("%llu", n): the decimal digits of n
RECURSIVE DecimalDigits(_)
DecimalDigits(n) ==
    LET d == CHOOSE ch \in Digits : DigitVal(ch) = n % 10
    IN  IF n < 10 THEN <<d>> ELSE Append(DecimalDigits(n \div 10), d)

(***************************************************************************)
(* A 64-bit counter (s64 count[idx]) as two words of HalfBits bits each,   *)
(* in two's complement.  A 32-bit cpu loads and stores it one word at a    *)
(* time.                                                                    *)
(***************************************************************************)
WORD == Pow2(HalfBits)
U64_MOD == WORD * WORD

\* the two words of the signed value v
Words(v) == [lo |-> (v % U64_MOD) % WORD, hi |-> (v % U64_MOD) \div WORD]
\* (u64) v
ToU64(v) == v % U64_MOD
\* (s64) u
ToS64(u) == IF u % U64_MOD >= U64_MOD \div 2 THEN (u % U64_MOD) - U64_MOD
            ELSE u % U64_MOD
\* the signed value of the two words w
WordsValue(w) == ToS64(w.hi * WORD + w.lo)

(***************************************************************************)
(* u64_stats_sync (seqcount): a writer makes the sequence odd while it     *)
(* updates; a reader starts only on an even sequence and retries when the  *)
(* sequence has moved.                                                      *)
(***************************************************************************)
u64_stats_fetch_begin_ok(sequence) == sequence % 2 = 0
u64_stats_fetch_retry(sequence, start) == sequence # start

VARIABLES
    init_done,    \* zram->init_done
    disksize,     \* zram->disksize, bytes
    capacity,     \* the gendisk's capacity, sectors (set_capacity)
    bd_holders,   \* bdev->bd_holders
    count,        \* per_cpu_ptr(zram->stats, cpu)->count[idx], two words
    syncp,        \* per_cpu_ptr(zram->stats, cpu)->syncp
    ds,           \* the disksize_store call in flight
    rs,           \* the reset_store call in flight
    sh,           \* the disksize_show call in flight
    gs,           \* the zram_get_stat call in flight
    wr,           \* the counter update in flight on each cpu
    st,           \* the initstate or statistics show call in flight
    pool_total,   \* xv_get_total_size_bytes(zram->mem_pool)
    reg,          \* zram_devices, num_devices and the dev_to_zram call
                  \* in flight
    neg_seen,     \* history: some statistic's total has been negative
    pre,          \* history: the descriptor and first_size as the latest
                  \* control-plane write found them
    n_inc,        \* history: counter updates begun
    total,        \* history: the sum of the deltas applied to each statistic
    first_size    \* history: disksize stored by the first successful
                  \* capacity write since the last reset; -1 when there was
                  \* none, -2 once another capacity write has followed it

vars == <<init_done, disksize, capacity, bd_holders, count, syncp,
          ds, rs, sh, gs, wr, st, pool_total, reg, neg_seen,
          pre, n_inc, total, first_size>>

zram_vars == <<init_done, disksize, capacity, bd_holders, count, syncp>>
hist_vars == <<pre, n_inc, total, first_size>>
aux_vars == <<st, pool_total, reg, neg_seen>>

\* the descriptor
Descr == [disksize |-> disksize, capacity |-> capacity,
          init_done |-> init_done, count |-> count]

ZeroCount == [c \in CPUS |-> [k \in ZRAM_STATS |-> Words(0)]]
NoDescr == [disksize |-> 0, capacity |-> 0, init_done |-> FALSE,
            count |-> ZeroCount]

Found == [d |-> Descr, first |-> first_size]
NoPre == [d |-> NoDescr, first |-> -1]

DsIdle == [pc |-> "idle", buf |-> << >>, ret |-> 0]
\* bdev: what bdget_disk returned, "bdev" or "NULL"; deref: history, the
\* bdev whose bd_holders has been read; log: history, the collaborators
\* called
RsIdle == [pc |-> "idle", buf |-> << >>, ret |-> 0, log |-> << >>,
           bdev |-> "bdev", deref |-> "none"]
ShIdle == [pc |-> "idle", out |-> << >>]
\* history of zram_get_stat's latest u64_stats_fetch_retry: the shard, the
\* sequence read before and after, the value read, whether it was added to
\* val, val before that, and the shard's value before and after the update
\* in flight on it at that moment
NoChk == [valid |-> FALSE, cpu |-> 1, start |-> 0, end |-> 0, temp |-> 0,
          accepted |-> FALSE, val0 |-> 0, before |-> 0, after |-> 0]
GsIdle == [pc |-> "idle", idx |-> "ZRAM_STAT_PAGES_STORED", cpu |-> 1,
           start |-> 0, temp |-> Words(0), val |-> 0, ret |-> 0,
           warned |-> FALSE, n0 |-> 0, quiet0 |-> FALSE, chk |-> NoChk]
WrIdle == [pc |-> "idle", idx |-> "ZRAM_STAT_PAGES_STORED", new |-> Words(0),
           delta |-> 0]
\* attr: the attribute read; val: u64 val of mem_used_total_show; pool, stat:
\* the operands of its sum that have been evaluated
StIdle == [pc |-> "idle", attr |-> "initstate", val |-> 0, pool |-> FALSE,
           stat |-> FALSE, out |-> << >>]
\* NULL, and the index of &zram_devices[i] counted from 1
NULL == 0
\* devices[i]: zram_devices[i - 1].disk; dev: the device looked up;
\* i: the loop's i; zram: the pointer returned
RegIdle(devices) == [pc |-> "idle", devices |-> devices, dev |-> 0,
                     i |-> 0, zram |-> NULL]

Init ==
    /\ init_done = FALSE
    /\ disksize = 0
    /\ capacity = 0
    /\ bd_holders = 0
    /\ count = ZeroCount
    /\ syncp = [c \in CPUS |-> 0]
    /\ ds = DsIdle
    /\ rs = RsIdle
    /\ sh = ShIdle
    /\ gs = GsIdle
    /\ wr = [c \in CPUS |-> WrIdle]
    /\ st = StIdle
    /\ pool_total = 0
    /\ reg = RegIdle(<< >>)
    /\ neg_seen = FALSE
    /\ pre = NoPre
    /\ n_inc = 0
    /\ total = [k \in ZRAM_STATS |-> 0]
    /\ first_size = -1

\* no operation is in flight
Quiet ==
    /\ ds.pc = "idle"
    /\ rs.pc = "idle"
    /\ sh.pc = "idle"
    /\ gs.pc = "idle"
    /\ st.pc = "idle"
    /\ reg.pc = "idle"
    /\ \A c \in CPUS : wr[c].pc = "idle"

(***************************************************************************)
(* disksize_show                                                            *)
(***************************************************************************)
disksize_show ==
    /\ sh.pc = "idle"
    /\ sh' = [pc |-> "done", out |-> DecimalDigits(disksize) \o <<"\n">>]
    /\ UNCHANGED <<aux_vars, zram_vars, ds, rs, gs, wr, hist_vars>>

disksize_show_return ==
    /\ sh.pc = "done"
    /\ sh' = ShIdle
    /\ UNCHANGED <<aux_vars, zram_vars, ds, rs, gs, wr, hist_vars>>

(***************************************************************************)
(* disksize_store                                                           *)
(***************************************************************************)
\* faulty variant: no init_done check
disksize_store_check_none(buf) ==
    /\ ds.pc = "idle"
    /\ ds' = [pc |-> "parse", buf |-> buf, ret |-> 0]
    /\ pre' = Found
    /\ UNCHANGED <<aux_vars, zram_vars, rs, sh, gs, wr, n_inc, total, first_size>>

\* faulty variant: the payload is looked at before init_done
disksize_store_check_late(buf) ==
    /\ ds.pc = "idle"
    /\ ds' = IF strict_strtoull(buf, 0).ret # 0
             THEN [pc |-> "done", buf |-> buf, ret |-> -EINVAL]
             ELSE IF init_done
             THEN [pc |-> "done", buf |-> buf, ret |-> -EBUSY]
             ELSE [pc |-> "parse", buf |-> buf, ret |-> 0]
    /\ pre' = Found
    /\ UNCHANGED <<aux_vars, zram_vars, rs, sh, gs, wr, n_inc, total, first_size>>

\* the init_done check
disksize_store_check(buf) ==
    /\ ds.pc = "idle"
    /\ ds' = IF init_done
             THEN [pc |-> "done", buf |-> buf, ret |-> -EBUSY]
             ELSE [pc |-> "parse", buf |-> buf, ret |-> 0]
    /\ pre' = Found
    /\ UNCHANGED <<aux_vars, zram_vars, rs, sh, gs, wr, n_inc, total, first_size>>

\* faulty variant: ret is not looked at
disksize_store_parse_unchecked ==
    /\ ds.pc = "parse"
    /\ LET r == strict_strtoull(ds.buf, disksize)
       IN  /\ disksize' = r.res
           /\ ds' = [ds EXCEPT !.pc = "mask"]
    /\ UNCHANGED <<aux_vars, init_done, capacity, bd_holders, count, syncp,
                   rs, sh, gs, wr, hist_vars>>

\* strict_strtoull(buf, 10, &zram->disksize): parses into the field itself
disksize_store_parse ==
    /\ ds.pc = "parse"
    /\ LET r == strict_strtoull(ds.buf, disksize)
       IN  /\ disksize' = r.res
           /\ ds' = IF r.ret # 0
                    THEN [ds EXCEPT !.pc = "done", !.ret = r.ret]
                    ELSE [ds EXCEPT !.pc = "mask"]
    /\ UNCHANGED <<aux_vars, init_done, capacity, bd_holders, count, syncp,
                   rs, sh, gs, wr, hist_vars>>

\* faulty variant: the size is rounded up to a page
disksize_store_mask_up ==
    /\ ds.pc = "mask"
    /\ disksize' = AndPageMask(disksize + PAGE_SIZE - 1)
    /\ ds' = [ds EXCEPT !.pc = "set_capacity"]
    /\ UNCHANGED <<aux_vars, init_done, capacity, bd_holders, count, syncp,
                   rs, sh, gs, wr, hist_vars>>

\* zram->disksize &= PAGE_MASK
disksize_store_mask ==
    /\ ds.pc = "mask"
    /\ disksize' = AndPageMask(disksize)
    /\ ds' = [ds EXCEPT !.pc = "set_capacity"]
    /\ UNCHANGED <<aux_vars, init_done, capacity, bd_holders, count, syncp,
                   rs, sh, gs, wr, hist_vars>>

\* faulty variant: the device is activated as its size is set
disksize_store_set_capacity_init ==
    /\ ds.pc = "set_capacity"
    /\ capacity' = Shr(disksize, SECTOR_SHIFT)
    /\ init_done' = TRUE
    /\ ds' = [ds EXCEPT !.pc = "done", !.ret = Len(ds.buf)]
    /\ UNCHANGED <<aux_vars, disksize, bd_holders, count, syncp,
                   rs, sh, gs, wr, hist_vars>>

\* set_capacity(zram->disk, zram->disksize >> SECTOR_SHIFT); return len
disksize_store_set_capacity ==
    /\ ds.pc = "set_capacity"
    /\ capacity' = Shr(disksize, SECTOR_SHIFT)
    /\ ds' = [ds EXCEPT !.pc = "done", !.ret = Len(ds.buf)]
    /\ UNCHANGED <<aux_vars, init_done, disksize, bd_holders, count, syncp,
                   rs, sh, gs, wr, hist_vars>>

disksize_store_return ==
    /\ ds.pc = "done"
    /\ ds' = DsIdle
    /\ pre' = NoPre
    /\ first_size' = IF pre.first # -1 THEN -2
                     ELSE IF ds.ret > 0 THEN disksize ELSE -1
    /\ UNCHANGED <<aux_vars, zram_vars, rs, sh, gs, wr, n_inc, total>>

(***************************************************************************)
(* reset_store                                                              *)
(***************************************************************************)
\* strict_strtoul(cp, 10, res): as strict_strtoull, into an unsigned long
strict_strtoul(cp, res) == strict_strtoull(cp, res)

\* faulty variant: the payload is looked at before the holders
reset_store_checks_late(holders, buf) ==
    LET r == strict_strtoul(buf, 0)
    IN  IF r.ret # 0 THEN r.ret
        ELSE IF r.res = 0 THEN -EINVAL
        ELSE IF holders # 0 THEN -EBUSY
        ELSE 0

\* faulty variant: a flag of zero is taken
reset_store_checks_zero(holders, buf) ==
    LET r == strict_strtoul(buf, 0)
    IN  IF holders # 0 THEN -EBUSY
        ELSE IF r.ret # 0 THEN r.ret
        ELSE 0

\* what reset_store returns before it touches anything, 0 to go on:
\* the holders check, then the parse, then the zero check
reset_store_checks(holders, buf) ==
    LET r == strict_strtoul(buf, 0)
    IN  IF holders # 0 THEN -EBUSY
        ELSE IF r.ret # 0 THEN r.ret
        ELSE IF r.res = 0 THEN -EINVAL
        ELSE 0

\* bdget_disk returns NULL and the read of bdev->bd_holders faults: the
\* kernel oopses and kills the writer
reset_store_null_oops(buf) ==
    /\ rs.pc = "idle"
    /\ rs' = [pc |-> "oops", buf |-> buf, ret |-> 0, log |-> << >>,
              bdev |-> "NULL", deref |-> "NULL"]
    /\ pre' = Found
    /\ UNCHANGED <<aux_vars, zram_vars, ds, sh, gs, wr, n_inc, total,
                   first_size>>

\* bdget_disk returns NULL and the read of bdev->bd_holders yields what
\* lies at that address, holders; then the parse and the zero check
reset_store_null_read(buf, holders) ==
    /\ rs.pc = "idle"
    /\ LET ret == reset_store_checks(holders, buf)
       IN  rs' = [pc |-> IF ret # 0 THEN "done" ELSE "fsync",
                  buf |-> buf, ret |-> ret, log |-> << >>,
                  bdev |-> "NULL", deref |-> "NULL"]
    /\ pre' = Found
    /\ UNCHANGED <<aux_vars, zram_vars, ds, sh, gs, wr, n_inc, total,
                   first_size>>

\* the writer killed by the oops is gone
do_exit ==
    /\ rs.pc = "oops"
    /\ rs' = RsIdle
    /\ pre' = NoPre
    /\ UNCHANGED <<aux_vars, zram_vars, ds, sh, gs, wr, n_inc, total,
                   first_size>>

\* bdget_disk, the bd_holders check, the parse and the zero check
reset_store_check(buf) ==
    /\ rs.pc = "idle"
    /\ LET ret == reset_store_checks(bd_holders, buf)
       IN  rs' = [pc |-> IF ret # 0 THEN "done" ELSE "fsync",
                  buf |-> buf, ret |-> ret, log |-> << >>,
                  bdev |-> "bdev", deref |-> "bdev"]
    /\ pre' = Found
    /\ UNCHANGED <<aux_vars, zram_vars, ds, sh, gs, wr, n_inc, total, first_size>>

\* if (bdev) fsync_bdev(bdev)
reset_store_fsync ==
    /\ rs.pc = "fsync"
    /\ rs' = [rs EXCEPT !.pc = "init_done",
                        !.log = IF rs.bdev # "NULL"
                                THEN Append(@, "fsync_bdev") ELSE @]
    /\ first_size' = -1
    /\ UNCHANGED <<aux_vars, zram_vars, ds, sh, gs, wr, pre, n_inc, total>>

\* faulty variant: the device is reset whether initialized or not
reset_store_init_done_always ==
    /\ rs.pc = "init_done"
    /\ rs' = [rs EXCEPT !.pc = "reset"]
    /\ UNCHANGED <<aux_vars, zram_vars, ds, sh, gs, wr, hist_vars>>

\* if (zram->init_done)
reset_store_init_done ==
    /\ rs.pc = "init_done"
    /\ rs' = IF init_done
             THEN [rs EXCEPT !.pc = "reset"]
             ELSE [rs EXCEPT !.pc = "done", !.ret = Len(rs.buf)]
    /\ UNCHANGED <<aux_vars, zram_vars, ds, sh, gs, wr, hist_vars>>

\* zram_reset_device(zram): frees the pages and the pool, zeroes the
\* counters, clears init_done and zeroes disksize
zram_reset_device ==
    /\ count' = ZeroCount
    /\ init_done' = FALSE
    /\ disksize' = 0
    /\ pool_total' = 0
    /\ total' = [k \in ZRAM_STATS |-> 0]

\* zram_reset_device(zram); return len
reset_store_reset ==
    /\ rs.pc = "reset"
    /\ zram_reset_device
    /\ rs' = [rs EXCEPT !.pc = "done", !.ret = Len(rs.buf),
                        !.log = Append(@, "zram_reset_device")]
    /\ UNCHANGED <<st, reg, neg_seen, capacity, bd_holders, syncp,
                   ds, sh, gs, wr, pre, n_inc, first_size>>

reset_store_return ==
    /\ rs.pc = "done"
    /\ rs' = RsIdle
    /\ pre' = NoPre
    /\ UNCHANGED <<aux_vars, zram_vars, ds, sh, gs, wr, n_inc, total, first_size>>

(***************************************************************************)
(* The device's surroundings: opens and closes of the block device, and    *)
(* the first activation of the device by the I/O path.                     *)
(***************************************************************************)
blkdev_get ==
    /\ bd_holders < MaxHolders
    /\ bd_holders' = bd_holders + 1
    /\ UNCHANGED <<aux_vars, init_done, disksize, capacity, count, syncp,
                   ds, rs, sh, gs, wr, hist_vars>>

blkdev_put ==
    /\ bd_holders > 0
    /\ bd_holders' = bd_holders - 1
    /\ UNCHANGED <<aux_vars, init_done, disksize, capacity, count, syncp,
                   ds, rs, sh, gs, wr, hist_vars>>

zram_init_device ==
    /\ ~init_done
    /\ init_done' = TRUE
    /\ UNCHANGED <<aux_vars, disksize, capacity, bd_holders, count, syncp,
                   ds, rs, sh, gs, wr, hist_vars>>

(***************************************************************************)
(* zram_add_stat (zram_stat_inc, zram_stat_dec) on cpu c, called by the    *)
(* I/O path: u64_stats_update_begin, count[idx] += delta one word at a     *)
(* time, u64_stats_update_end.                                              *)
(***************************************************************************)
\* history: the decrements of statistic idx begun on the cpus 1..n and not
\* yet completed
RECURSIVE PendingDecs(_, _)
PendingDecs(idx, n) ==
    IF n = 0 THEN 0
    ELSE PendingDecs(idx, n - 1)
         + (IF wr[n].pc # "idle" /\ wr[n].idx = idx /\ wr[n].delta < 0
            THEN wr[n].delta ELSE 0)

\* history: the least value the total of statistic idx can have now, a
\* decrement counted from its first step and an increment from its last
LowTotal(idx) == total[idx] + PendingDecs(idx, NR_CPUS)

zram_add_stat_begin(c, idx, delta) ==
    /\ wr[c].pc = "idle"
    /\ n_inc < MaxIncs
    /\ n_inc' = n_inc + 1
    /\ neg_seen' = (neg_seen \/ (delta < 0 /\ LowTotal(idx) + delta < 0))
    /\ syncp' = [syncp EXCEPT ![c] = @ + 1]
    /\ wr' = [wr EXCEPT ![c] =
                [pc |-> "lo", idx |-> idx, delta |-> delta,
                 new |-> Words(WordsValue(count[c][idx]) + delta)]]
    /\ UNCHANGED <<st, pool_total, reg, init_done, disksize, capacity,
                   bd_holders, count, ds, rs, sh, gs, pre, total, first_size>>

zram_add_stat_lo(c) ==
    /\ wr[c].pc = "lo"
    /\ count' = [count EXCEPT ![c][wr[c].idx].lo = wr[c].new.lo]
    /\ wr' = [wr EXCEPT ![c].pc = "hi"]
    /\ UNCHANGED <<aux_vars, init_done, disksize, capacity, bd_holders, syncp,
                   ds, rs, sh, gs, hist_vars>>

zram_add_stat_hi(c) ==
    /\ wr[c].pc = "hi"
    /\ count' = [count EXCEPT ![c][wr[c].idx].hi = wr[c].new.hi]
    /\ wr' = [wr EXCEPT ![c].pc = "end"]
    /\ UNCHANGED <<aux_vars, init_done, disksize, capacity, bd_holders, syncp,
                   ds, rs, sh, gs, hist_vars>>

zram_add_stat_end(c) ==
    /\ wr[c].pc = "end"
    /\ syncp' = [syncp EXCEPT ![c] = @ + 1]
    /\ total' = [total EXCEPT ![wr[c].idx] = @ + wr[c].delta]
    /\ wr' = [wr EXCEPT ![c] = WrIdle]
    /\ UNCHANGED <<aux_vars, init_done, disksize, capacity, bd_holders, count,
                   ds, rs, sh, gs, pre, n_inc, first_size>>

(***************************************************************************)
(* zram_get_stat(zram, idx)                                                 *)
(***************************************************************************)
\* s64 val = 0; the first cpu of for_each_possible_cpu
zram_get_stat_call(idx) ==
    /\ gs.pc = "idle"
    /\ gs' = [GsIdle EXCEPT !.pc = "fetch_begin", !.idx = idx,
                            !.n0 = n_inc,
                            !.quiet0 = (\A c \in CPUS : wr[c].pc = "idle")]
    /\ UNCHANGED <<aux_vars, zram_vars, ds, rs, sh, wr, hist_vars>>

\* start = u64_stats_fetch_begin(&stats->syncp)
zram_get_stat_fetch_begin ==
    /\ gs.pc = "fetch_begin"
    /\ u64_stats_fetch_begin_ok(syncp[gs.cpu])
    /\ gs' = [gs EXCEPT !.pc = "read_lo", !.start = syncp[gs.cpu]]
    /\ UNCHANGED <<aux_vars, zram_vars, ds, rs, sh, wr, hist_vars>>

\* temp = stats->count[idx], the low word
zram_get_stat_read_lo ==
    /\ gs.pc = "read_lo"
    /\ gs' = [gs EXCEPT !.pc = "read_hi",
                        !.temp.lo = count[gs.cpu][gs.idx].lo]
    /\ UNCHANGED <<aux_vars, zram_vars, ds, rs, sh, wr, hist_vars>>

\* temp = stats->count[idx], the high word
zram_get_stat_read_hi ==
    /\ gs.pc = "read_hi"
    /\ gs' = [gs EXCEPT !.pc = "fetch_retry",
                        !.temp.hi = count[gs.cpu][gs.idx].hi]
    /\ UNCHANGED <<aux_vars, zram_vars, ds, rs, sh, wr, hist_vars>>

\* an update of count[idx] is in flight on cpu c
Updating(c, idx) == wr[c].pc # "idle" /\ wr[c].idx = idx
\* the value of the shard before and after the update in flight on it
ShardBefore(c, idx) ==
    IF Updating(c, idx) THEN ToS64(WordsValue(wr[c].new) - wr[c].delta)
    ELSE WordsValue(count[c][idx])
ShardAfter(c, idx) ==
    IF Updating(c, idx) THEN WordsValue(wr[c].new)
    ELSE WordsValue(count[c][idx])

\* the history of a u64_stats_fetch_retry that answered retry
Checked(retry) ==
    [valid |-> TRUE, cpu |-> gs.cpu, start |-> gs.start,
     end |-> syncp[gs.cpu], temp |-> WordsValue(gs.temp),
     accepted |-> ~retry, val0 |-> gs.val,
     before |-> ShardBefore(gs.cpu, gs.idx),
     after |-> ShardAfter(gs.cpu, gs.idx)]

\* faulty variant: val = temp in place of val += temp
zram_get_stat_fetch_retry_assign ==
    /\ gs.pc = "fetch_retry"
    /\ gs' = IF u64_stats_fetch_retry(syncp[gs.cpu], gs.start)
             THEN [gs EXCEPT !.pc = "fetch_begin", !.chk = Checked(TRUE)]
             ELSE [gs EXCEPT
                     !.val = WordsValue(gs.temp),
                     !.cpu = IF gs.cpu = NR_CPUS THEN @ ELSE @ + 1,
                     !.pc = IF gs.cpu = NR_CPUS THEN "warn"
                            ELSE "fetch_begin",
                     !.chk = Checked(FALSE)]
    /\ UNCHANGED <<aux_vars, zram_vars, ds, rs, sh, wr, hist_vars>>

\* faulty variant: the read is taken without looking at the sequence again
zram_get_stat_fetch_retry_never ==
    /\ gs.pc = "fetch_retry"
    /\ gs' = [gs EXCEPT
                !.val = ToS64(@ + WordsValue(gs.temp)),
                !.cpu = IF gs.cpu = NR_CPUS THEN @ ELSE @ + 1,
                !.pc = IF gs.cpu = NR_CPUS THEN "warn" ELSE "fetch_begin",
                !.chk = Checked(FALSE)]
    /\ UNCHANGED <<aux_vars, zram_vars, ds, rs, sh, wr, hist_vars>>

\* faulty variant: the loop goes on while the sequence has not moved
zram_get_stat_fetch_retry_inverted ==
    /\ gs.pc = "fetch_retry"
    /\ gs' = IF ~u64_stats_fetch_retry(syncp[gs.cpu], gs.start)
             THEN [gs EXCEPT !.pc = "fetch_begin", !.chk = Checked(TRUE)]
             ELSE [gs EXCEPT
                     !.val = ToS64(@ + WordsValue(gs.temp)),
                     !.cpu = IF gs.cpu = NR_CPUS THEN @ ELSE @ + 1,
                     !.pc = IF gs.cpu = NR_CPUS THEN "warn"
                            ELSE "fetch_begin",
                     !.chk = Checked(FALSE)]
    /\ UNCHANGED <<aux_vars, zram_vars, ds, rs, sh, wr, hist_vars>>

\* while (u64_stats_fetch_retry(&stats->syncp, start)); val += temp;
\* and the next cpu
zram_get_stat_fetch_retry ==
    /\ gs.pc = "fetch_retry"
    /\ gs' = IF u64_stats_fetch_retry(syncp[gs.cpu], gs.start)
             THEN [gs EXCEPT !.pc = "fetch_begin", !.chk = Checked(TRUE)]
             ELSE [gs EXCEPT
                     !.val = ToS64(@ + WordsValue(gs.temp)),
                     !.cpu = IF gs.cpu = NR_CPUS THEN @ ELSE @ + 1,
                     !.pc = IF gs.cpu = NR_CPUS THEN "warn"
                            ELSE "fetch_begin",
                     !.chk = Checked(FALSE)]
    /\ UNCHANGED <<aux_vars, zram_vars, ds, rs, sh, wr, hist_vars>>

\* faulty variant: a negative sum is returned as zero
zram_get_stat_warn_clamp ==
    /\ gs.pc = "warn"
    /\ gs' = [gs EXCEPT !.pc = "done", !.warned = (gs.val < 0),
                        !.ret = IF gs.val < 0 THEN 0 ELSE gs.val]
    /\ UNCHANGED <<aux_vars, zram_vars, ds, rs, sh, wr, hist_vars>>

\* WARN_ON(val < 0); return val
zram_get_stat_warn ==
    /\ gs.pc = "warn"
    /\ gs' = [gs EXCEPT !.pc = "done", !.warned = (gs.val < 0),
                        !.ret = ToU64(gs.val)]
    /\ UNCHANGED <<aux_vars, zram_vars, ds, rs, sh, wr, hist_vars>>

\* the return to a caller other than a show handler
zram_get_stat_return ==
    /\ gs.pc = "done"
    /\ st.pc # "get_stat"
    /\ gs' = GsIdle
    /\ UNCHANGED <<aux_vars, zram_vars, ds, rs, sh, wr, hist_vars>>

(***************************************************************************)
(* initstate_show and the statistics attributes.  A show handler that      *)
(* calls zram_get_stat waits at "get_stat" while the call runs.            *)
(***************************************************************************)
\* x << PAGE_SHIFT on a u64
ShlPage(x) == (x * PAGE_SIZE) % U64_MOD

\* zram_get_stat as a show handler enters it
zram_get_stat_entry(idx) ==
    [GsIdle EXCEPT !.pc = "fetch_begin", !.idx = idx, !.n0 = n_inc,
                   !.quiet0 = (\A c \in CPUS : wr[c].pc = "idle")]

\* sprintf(buf, "%u\n", zram->init_done)
initstate_show ==
    /\ st.pc = "idle"
    /\ st' = [StIdle EXCEPT
                !.pc = "done", !.attr = "initstate",
                !.out = DecimalDigits(IF init_done THEN 1 ELSE 0) \o <<"\n">>]
    /\ UNCHANGED <<pool_total, reg, neg_seen, zram_vars, ds, rs, sh, gs, wr,
                   hist_vars>>

\* num_reads_show, and the other attributes that print one counter
num_reads_show ==
    /\ st.pc = "idle"
    /\ gs.pc = "idle"
    /\ st' = [StIdle EXCEPT !.pc = "get_stat", !.attr = "num_reads"]
    /\ gs' = zram_get_stat_entry("ZRAM_STAT_NUM_READS")
    /\ UNCHANGED <<pool_total, reg, neg_seen, zram_vars, ds, rs, sh, wr,
                   hist_vars>>

\* sprintf(buf, "%llu\n", zram_get_stat(zram, ZRAM_STAT_NUM_READS))
num_reads_show_sprintf ==
    /\ st.pc = "get_stat"
    /\ st.attr = "num_reads"
    /\ gs.pc = "done"
    /\ st' = [st EXCEPT !.pc = "done",
                        !.out = DecimalDigits(gs.ret) \o <<"\n">>]
    /\ gs' = GsIdle
    /\ UNCHANGED <<pool_total, reg, neg_seen, zram_vars, ds, rs, sh, wr,
                   hist_vars>>

orig_data_size_show ==
    /\ st.pc = "idle"
    /\ gs.pc = "idle"
    /\ st' = [StIdle EXCEPT !.pc = "get_stat", !.attr = "orig_data_size"]
    /\ gs' = zram_get_stat_entry("ZRAM_STAT_PAGES_STORED")
    /\ UNCHANGED <<pool_total, reg, neg_seen, zram_vars, ds, rs, sh, wr,
                   hist_vars>>

\* faulty variant: the count of pages is printed, not shifted
orig_data_size_show_sprintf_pages ==
    /\ st.pc = "get_stat"
    /\ st.attr = "orig_data_size"
    /\ gs.pc = "done"
    /\ st' = [st EXCEPT !.pc = "done",
                        !.out = DecimalDigits(gs.ret) \o <<"\n">>]
    /\ gs' = GsIdle
    /\ UNCHANGED <<pool_total, reg, neg_seen, zram_vars, ds, rs, sh, wr,
                   hist_vars>>

\* sprintf(buf, "%llu\n",
\*         zram_get_stat(zram, ZRAM_STAT_PAGES_STORED) << PAGE_SHIFT)
orig_data_size_show_sprintf ==
    /\ st.pc = "get_stat"
    /\ st.attr = "orig_data_size"
    /\ gs.pc = "done"
    /\ st' = [st EXCEPT !.pc = "done",
                        !.out = DecimalDigits(ShlPage(gs.ret)) \o <<"\n">>]
    /\ gs' = GsIdle
    /\ UNCHANGED <<pool_total, reg, neg_seen, zram_vars, ds, rs, sh, wr,
                   hist_vars>>

\* faulty variant: init_done is not looked at
mem_used_total_show_unchecked ==
    /\ st.pc = "idle"
    /\ st' = [StIdle EXCEPT !.attr = "mem_used_total", !.pc = "sum"]
    /\ UNCHANGED <<pool_total, reg, neg_seen, zram_vars, ds, rs, sh, gs, wr,
                   hist_vars>>

\* u64 val = 0; if (zram->init_done)
mem_used_total_show ==
    /\ st.pc = "idle"
    /\ st' = [StIdle EXCEPT !.attr = "mem_used_total",
                            !.pc = IF init_done THEN "sum" ELSE "sprintf"]
    /\ UNCHANGED <<pool_total, reg, neg_seen, zram_vars, ds, rs, sh, gs, wr,
                   hist_vars>>

\* the operand xv_get_total_size_bytes(zram->mem_pool); the operands of +
\* are evaluated in either order
mem_used_total_show_pool ==
    /\ st.pc = "sum"
    /\ ~st.pool
    /\ st' = [st EXCEPT !.val = (@ + pool_total) % U64_MOD, !.pool = TRUE,
                        !.pc = IF st.stat THEN "sprintf" ELSE "sum"]
    /\ UNCHANGED <<pool_total, reg, neg_seen, zram_vars, ds, rs, sh, gs, wr,
                   hist_vars>>

\* the operand zram_get_stat(zram, ZRAM_STAT_PAGES_EXPAND) << PAGE_SHIFT:
\* the call
mem_used_total_show_get_stat ==
    /\ st.pc = "sum"
    /\ ~st.stat
    /\ gs.pc = "idle"
    /\ st' = [st EXCEPT !.pc = "get_stat"]
    /\ gs' = zram_get_stat_entry("ZRAM_STAT_PAGES_EXPAND")
    /\ UNCHANGED <<pool_total, reg, neg_seen, zram_vars, ds, rs, sh, wr,
                   hist_vars>>

\* the operand zram_get_stat(zram, ZRAM_STAT_PAGES_EXPAND) << PAGE_SHIFT:
\* the shift and the addition
mem_used_total_show_shift ==
    /\ st.pc = "get_stat"
    /\ st.attr = "mem_used_total"
    /\ gs.pc = "done"
    /\ st' = [st EXCEPT !.val = (@ + ShlPage(gs.ret)) % U64_MOD,
                        !.stat = TRUE,
                        !.pc = IF st.pool THEN "sprintf" ELSE "sum"]
    /\ gs' = GsIdle
    /\ UNCHANGED <<pool_total, reg, neg_seen, zram_vars, ds, rs, sh, wr,
                   hist_vars>>

\* sprintf(buf, "%llu\n", val)
mem_used_total_show_sprintf ==
    /\ st.pc = "sprintf"
    /\ st' = [st EXCEPT !.pc = "done",
                        !.out = DecimalDigits(st.val) \o <<"\n">>]
    /\ UNCHANGED <<pool_total, reg, neg_seen, zram_vars, ds, rs, sh, gs, wr,
                   hist_vars>>

\* the return of initstate_show and of the statistics attributes
stat_show_return ==
    /\ st.pc = "done"
    /\ st' = StIdle
    /\ UNCHANGED <<pool_total, reg, neg_seen, zram_vars, ds, rs, sh, gs, wr,
                   hist_vars>>

(***************************************************************************)
(* The memory pool of an initialized device: the I/O path allocates and    *)
(* frees pages of it.                                                       *)
(***************************************************************************)
xv_malloc ==
    /\ init_done
    /\ pool_total < MaxPoolPages * PAGE_SIZE
    /\ pool_total' = pool_total + PAGE_SIZE
    /\ UNCHANGED <<st, reg, neg_seen, zram_vars, ds, rs, sh, gs, wr,
                   hist_vars>>

xv_free ==
    /\ pool_total > 0
    /\ pool_total' = pool_total - PAGE_SIZE
    /\ UNCHANGED <<st, reg, neg_seen, zram_vars, ds, rs, sh, gs, wr,
                   hist_vars>>

(***************************************************************************)
(* dev_to_zram over the table zram_devices[0 .. num_devices - 1].  A disk  *)
(* and its struct device are one number (disk_to_dev is one to one); the   *)
(* pointer &zram_devices[i] is the number i + 1.                           *)
(***************************************************************************)
Disks == 1 .. MaxDevices + 1

\* the tables zram_init can build: every device has a disk of its own
DeviceTables ==
    { t \in UNION { [1 .. n -> Disks] : n \in 1 .. MaxDevices } :
        \A i, j \in DOMAIN t : i # j => t[i] # t[j] }

\* the for loop from i on, zram being the pointer assigned so far
RECURSIVE dev_to_zram_loop(_, _, _, _)
dev_to_zram_loop(devices, dev, i, zram) ==
    IF i < Len(devices)
    THEN IF devices[i + 1] = dev THEN i + 1
         ELSE dev_to_zram_loop(devices, dev, i + 1, i + 1)
    ELSE zram

\* struct zram *zram = NULL; the loop; return zram
dev_to_zram(devices, dev) == dev_to_zram_loop(devices, dev, 0, NULL)

\* zram_init: num_devices devices are created
zram_init(devices) ==
    /\ reg.pc = "idle"
    /\ reg.devices = << >>
    /\ reg' = RegIdle(devices)
    /\ UNCHANGED <<st, pool_total, neg_seen, zram_vars, ds, rs, sh, gs, wr,
                   hist_vars>>

\* zram_exit: the devices are destroyed
zram_exit ==
    /\ reg.pc = "idle"
    /\ reg.devices # << >>
    /\ reg' = RegIdle(<< >>)
    /\ UNCHANGED <<st, pool_total, neg_seen, zram_vars, ds, rs, sh, gs, wr,
                   hist_vars>>

dev_to_zram_call(dev) ==
    /\ reg.pc = "idle"
    /\ reg' = [reg EXCEPT !.pc = "done", !.dev = dev,
                          !.i = Len(reg.devices),
                          !.zram = dev_to_zram(reg.devices, dev)]
    /\ UNCHANGED <<st, pool_total, neg_seen, zram_vars, ds, rs, sh, gs, wr,
                   hist_vars>>

dev_to_zram_return ==
    /\ reg.pc = "done"
    /\ reg' = RegIdle(reg.devices)
    /\ UNCHANGED <<st, pool_total, neg_seen, zram_vars, ds, rs, sh, gs, wr,
                   hist_vars>>

(***************************************************************************)
(* The specifications.                                                      *)
(***************************************************************************)
\* the first step of each operation
Call ==
    \/ disksize_show
    \/ \E buf \in Payloads : disksize_store_check(buf)
    \/ \E buf \in Payloads : reset_store_check(buf)
    \/ \E idx \in ZRAM_STATS : zram_get_stat_call(idx)
    \/ \E c \in CPUS, idx \in ZRAM_STATS, delta \in Deltas :
          zram_add_stat_begin(c, idx, delta)
    \/ blkdev_get
    \/ blkdev_put
    \/ zram_init_device
    \/ \E buf \in Payloads : reset_store_null_oops(buf)
    \/ \E buf \in Payloads, holders \in 0 .. MaxHolders :
          reset_store_null_read(buf, holders)
    \/ initstate_show

\* the first step of each statistics attribute, and the pool's changes
ShowCall ==
    \/ num_reads_show
    \/ orig_data_size_show
    \/ mem_used_total_show
    \/ xv_malloc
    \/ xv_free

CtlStep ==
    \/ disksize_show_return
    \/ disksize_store_parse
    \/ disksize_store_mask
    \/ disksize_store_set_capacity
    \/ disksize_store_return
    \/ reset_store_fsync
    \/ reset_store_init_done
    \/ reset_store_reset
    \/ reset_store_return

StatStep ==
    \/ \E c \in CPUS : zram_add_stat_lo(c)
    \/ \E c \in CPUS : zram_add_stat_hi(c)
    \/ \E c \in CPUS : zram_add_stat_end(c)
    \/ zram_get_stat_fetch_begin
    \/ zram_get_stat_read_lo
    \/ zram_get_stat_read_hi
    \/ zram_get_stat_fetch_retry
    \/ zram_get_stat_warn
    \/ zram_get_stat_return

\* the steps of the show handlers of the statistics
ShowStep ==
    \/ num_reads_show_sprintf
    \/ orig_data_size_show_sprintf
    \/ mem_used_total_show_pool
    \/ mem_used_total_show_get_stat
    \/ mem_used_total_show_shift
    \/ mem_used_total_show_sprintf

\* one operation at a time, each run to its end
Next ==
    \/ Quiet /\ Call
    \/ CtlStep
    \/ StatStep
    \/ stat_show_return
    \/ do_exit

Spec == Init /\ [][Next]_vars

\* the statistics attributes, the counter updates and the first activation,
\* one operation at a time
NextShow ==
    \/ Quiet /\ ShowCall
    \/ Quiet /\ \E idx \in ZRAM_STATS : zram_get_stat_call(idx)
    \/ Quiet /\ \E c \in CPUS, idx \in ZRAM_STATS, delta \in Deltas :
                   zram_add_stat_begin(c, idx, delta)
    \/ Quiet /\ zram_init_device
    \/ StatStep
    \/ ShowStep
    \/ stat_show_return

SpecShow == Init /\ [][NextShow]_vars

\* every operation of the layer, one at a time
NextAll ==
    \/ Next
    \/ Quiet /\ ShowCall
    \/ ShowStep

SpecAll == Init /\ [][NextAll]_vars

\* the control plane, step by step
NextCtl ==
    \/ disksize_show
    \/ \E buf \in Payloads : disksize_store_check(buf)
    \/ \E buf \in Payloads : reset_store_check(buf)
    \/ blkdev_get
    \/ blkdev_put
    \/ zram_init_device
    \/ CtlStep

SpecCtl == Init /\ [][NextCtl]_vars

\* the counters, step by step
NextStat ==
    \/ \E idx \in ZRAM_STATS : zram_get_stat_call(idx)
    \/ \E c \in CPUS, idx \in ZRAM_STATS, delta \in Deltas :
          zram_add_stat_begin(c, idx, delta)
    \/ StatStep

SpecStat == Init /\ [][NextStat]_vars

\* the steps of zram_get_stat up to its return statement
GetStatStep ==
    \/ zram_get_stat_fetch_begin
    \/ zram_get_stat_read_lo
    \/ zram_get_stat_read_hi
    \/ zram_get_stat_fetch_retry
    \/ zram_get_stat_warn

\* the steps of an update in flight on cpu c
AddStatStep(c) ==
    \/ zram_add_stat_lo(c)
    \/ zram_add_stat_hi(c)
    \/ zram_add_stat_end(c)

\* the counters, every cpu running on: a writer keeps its cpu between
\* update_begin and update_end and the reader's cpu keeps spinning
SpecStatFair ==
    /\ SpecStat
    /\ WF_vars(GetStatStep)
    /\ \A c \in CPUS : WF_vars(AddStatStep(c))

\* the table of devices and its lookups
NextReg ==
    \/ \E devices \in DeviceTables : zram_init(devices)
    \/ zram_exit
    \/ \E dev \in Disks : dev_to_zram_call(dev)
    \/ dev_to_zram_return

SpecReg == Init /\ [][NextReg]_vars

(***************************************************************************)
(* What the properties speak of.                                            *)
(***************************************************************************)
\* buf is a decimal number: digits, then at most one newline
ValidDecimal(buf) ==
    \E n \in 1 .. Len(buf) :
        /\ \A i \in 1 .. n : buf[i] \in Digits
        /\ n = Len(buf) \/ (n = Len(buf) - 1 /\ buf[Len(buf)] = "\n")

\* the number a decimal payload writes
PayloadValue(buf) == DigitsValue(buf, DigitRun(buf))

\* the number a read shows: the digits before the newline
ShownValue(out) == DigitsValue(out, Len(out) - 1)

\* zram_get_stat ran after every counter update had completed
SumAfterIncrements ==
    /\ gs.pc = "done"
    /\ gs.quiet0
    /\ gs.n0 = n_inc

(***************************************************************************)
(* C1, as stated: a sum(k) that starts after all increments have completed *)
(* returns exactly the arithmetic total of the deltas applied.  It fails   *)
(* when the total is negative: the s64 sum is returned as a u64.           *)
(***************************************************************************)
C1_SumIsArithmeticTotal ==
    SumAfterIncrements => gs.ret = total[gs.idx]

(***************************************************************************)
(* C1, amended: a sum(k) that starts after all increments have completed   *)
(* returns the total of the deltas applied reduced modulo 2^64, which is   *)
(* the total itself whenever the total is not negative, for every          *)
(* interleaving of the increments.                                          *)
(***************************************************************************)
C1_SumIsTotalAsU64 ==
    SumAfterIncrements =>
        /\ gs.ret = total[gs.idx] % U64_MOD
        /\ total[gs.idx] >= 0 => gs.ret = total[gs.idx]

\* a sum of two increments made on different cpus
C1_Witness ==
    /\ SumAfterIncrements
    /\ n_inc = 2
    /\ \A c \in CPUS : WordsValue(count[c][gs.idx]) = 1
    /\ gs.ret = 2

(***************************************************************************)
(* C2: the value a shard contributes to a sum that runs beside an update   *)
(* of that shard is the shard's value before the update or its value after *)
(* it, never a mix of words of both; a read is added to the sum only if    *)
(* the sequence read before and after it are equal, and is repeated (same  *)
(* shard, nothing added) otherwise.                                         *)
(***************************************************************************)
C2_NoTornRead ==
    gs.chk.valid =>
        /\ gs.chk.accepted =>
              /\ gs.chk.start = gs.chk.end
              /\ gs.chk.temp \in {gs.chk.before, gs.chk.after}
        /\ ~gs.chk.accepted =>
              /\ gs.chk.start # gs.chk.end
              /\ gs.cpu = gs.chk.cpu
              /\ gs.val = gs.chk.val0

\* a read that mixed the words of two values, and was repeated
C2_Witness ==
    /\ gs.chk.valid
    /\ ~gs.chk.accepted
    /\ gs.chk.temp \notin {gs.chk.before, gs.chk.after}
    /\ gs.pc = "fetch_begin"

\* a disksize_store call has run to its return
StoreDone == ds.pc = "done"
\* a reset_store call that had a block device has run to its return
ResetDone == rs.pc = "done" /\ rs.bdev = "bdev"

\* nothing of the descriptor differs from what the call found
DescrUnchanged == Descr = pre.d
\* disksize and the gendisk's capacity are what the call found
SizeUnchanged ==
    /\ disksize = pre.d.disksize
    /\ capacity = pre.d.capacity

(***************************************************************************)
(* C3, as stated: a second capacity write issued after a first successful  *)
(* capacity write, with no reset in between, fails with Busy and leaves    *)
(* capacityBytes at the value stored by the first write.                   *)
(***************************************************************************)
C3_SecondWriteBusy ==
    (StoreDone /\ pre.first >= 0) =>
        /\ ds.ret = -EBUSY
        /\ disksize = pre.first

(***************************************************************************)
(* C3, amended: a second capacity write issued after a first successful    *)
(* capacity write, with no reset in between, fails with Busy exactly when  *)
(* the device has become initialized in between, and then leaves           *)
(* capacityBytes at the value stored by the first write; on a device that  *)
(* is still not initialized a second write with a decimal payload succeeds *)
(* and stores its own page-rounded value.                                   *)
(***************************************************************************)
C3_SecondWriteBusyIfInitialized ==
    (StoreDone /\ pre.first >= 0) =>
        /\ ds.ret = -EBUSY <=> pre.d.init_done
        /\ pre.d.init_done => disksize = pre.first
        /\ (~pre.d.init_done /\ ValidDecimal(ds.buf)) =>
              /\ ds.ret = Len(ds.buf)
              /\ disksize = PayloadValue(ds.buf)
                              - (PayloadValue(ds.buf) % PAGE_SIZE)

\* a second write refused on a device initialized after the first write
C3_Witness ==
    /\ StoreDone
    /\ pre.first = 4096
    /\ pre.d.init_done
    /\ ds.buf = <<"8", "1", "9", "2", "\n">>
    /\ ds.ret = -EBUSY
    /\ disksize = 4096

C5_InitializedIsBusy ==
    (StoreDone /\ pre.d.init_done) =>
        /\ ds.ret = -EBUSY
        /\ SizeUnchanged
        /\ DescrUnchanged

\* an unparsable payload refused with Busy on an initialized device
C5_Witness ==
    /\ StoreDone
    /\ pre.d.init_done
    /\ ds.buf = <<"4", "x">>
    /\ ds.ret = -EBUSY
    /\ disksize = 4096

(***************************************************************************)
(* C6: a capacity write on a device that is not initialized, with a        *)
(* payload that parses to v, stores capacityBytes = v rounded down to a    *)
(* multiple of the page size (4097 gives 4096, a v below the page size     *)
(* gives 0), sets the block object's capacity to capacityBytes divided by  *)
(* the sector size and returns the number of bytes consumed.               *)
(***************************************************************************)
C6_StoreRoundsDown ==
    (StoreDone /\ ~pre.d.init_done /\ ValidDecimal(ds.buf)) =>
        LET v == PayloadValue(ds.buf)
        IN  /\ disksize % PAGE_SIZE = 0
            /\ disksize <= v
            /\ v < disksize + PAGE_SIZE
            /\ ds.buf = <<"4", "0", "9", "7">> => disksize = 4096
            /\ v < PAGE_SIZE => disksize = 0
            /\ capacity * Pow2(SECTOR_SHIFT) = disksize
            /\ ds.ret = Len(ds.buf)

\* 4097 written over a capacity of 8192 bytes
C6_Witness ==
    /\ StoreDone
    /\ ds.buf = <<"4", "0", "9", "7">>
    /\ pre.d.disksize = 8192
    /\ disksize = 4096
    /\ capacity = 8
    /\ ds.ret = 4

(***************************************************************************)
(* C7: capacityBytes is a multiple of the page size in every state a read  *)
(* of the capacity can observe, a read that runs beside a capacity write   *)
(* included.                                                                *)
(***************************************************************************)
C7_ShownSizePageAligned ==
    sh.pc = "done" => ShownValue(sh.out) % PAGE_SIZE = 0

(***************************************************************************)
(* C8: a reset issued while the block object has holders fails with Busy   *)
(* for every payload, flushes nothing, does not call the reset             *)
(* collaborator and leaves capacityBytes, initialized and every counter    *)
(* unchanged: Busy comes before InvalidArgument.                            *)
(***************************************************************************)
C8_ResetWithHoldersIsBusy ==
    (ResetDone /\ bd_holders > 0) =>
        /\ rs.ret = -EBUSY
        /\ rs.log = << >>
        /\ DescrUnchanged

\* an unparsable reset refused with Busy on an initialized device with two
\* holders and a counter that is not zero
C8_Witness ==
    /\ ResetDone
    /\ bd_holders = 2
    /\ rs.buf = <<"4", "x">>
    /\ rs.ret = -EBUSY
    /\ init_done
    /\ total["ZRAM_STAT_PAGES_STORED"] = 1

(***************************************************************************)
(* C9: a reset with no holders whose payload is unparsable or parses to 0  *)
(* fails with InvalidArgument, flushes nothing, does not call the reset    *)
(* collaborator and leaves capacityBytes, initialized and every counter    *)
(* unchanged, whether or not the device is initialized.                    *)
(***************************************************************************)
C9_ResetBadFlagIsInvalid ==
    (ResetDone /\ bd_holders = 0
       /\ (~ValidDecimal(rs.buf) \/ PayloadValue(rs.buf) = 0)) =>
        /\ rs.ret = -EINVAL
        /\ rs.log = << >>
        /\ DescrUnchanged

\* a flag of 0 refused on an initialized device with a counter that is not
\* zero
C9_Witness ==
    /\ ResetDone
    /\ bd_holders = 0
    /\ rs.buf = <<"0">>
    /\ rs.ret = -EINVAL
    /\ init_done
    /\ disksize = 4096
    /\ total["ZRAM_STAT_PAGES_STORED"] = 1

(***************************************************************************)
(* C10: a reset with no holders and a nonzero flag flushes pending I/O     *)
(* exactly once and before any call of the reset collaborator, calls the   *)
(* reset collaborator exactly once if the device is initialized and not at *)
(* all if it is not, and returns the bytes consumed in both cases; on a    *)
(* device that is not initialized the descriptor, a capacity written       *)
(* before included, is left unchanged.                                      *)
(***************************************************************************)
C10_ResetFlushesThenResets ==
    /\ rs.bdev = "bdev" =>
          rs.log \in { << >>, <<"fsync_bdev">>,
                       <<"fsync_bdev", "zram_reset_device">> }
    /\ (ResetDone /\ bd_holders = 0
          /\ ValidDecimal(rs.buf) /\ PayloadValue(rs.buf) # 0) =>
          /\ rs.ret = Len(rs.buf)
          /\ pre.d.init_done =>
                rs.log = <<"fsync_bdev", "zram_reset_device">>
          /\ ~pre.d.init_done =>
                /\ rs.log = <<"fsync_bdev">>
                /\ DescrUnchanged

\* a reset of an initialized device: the flush, then the collaborator
C10_Witness ==
    /\ ResetDone
    /\ rs.buf = <<"1", "0", "0">>
    /\ rs.ret = 3
    /\ rs.log = <<"fsync_bdev", "zram_reset_device">>
    /\ pre.d.init_done
    /\ pre.d.disksize = 4096
    /\ ~init_done


(***************************************************************************)
(* C11: zram_reset_device is never called while the block device has a     *)
(* holder, whatever opens and closes of the device run beside reset_store. *)
(* It fails: bd_holders is read once, at the start, and an open that comes *)
(* after that read does not stop the reset.                                 *)
(***************************************************************************)
C11_ResetOnlyWithoutHolders ==
    [][reset_store_reset => bd_holders = 0]_vars

(***************************************************************************)
(* C12: dev_to_zram returns the descriptor whose disk is the device looked *)
(* up, and NULL when no descriptor of the table has that disk; never the   *)
(* descriptor of another device.  It fails: the loop assigns zram before   *)
(* it compares, so a device that matches none gets the last descriptor.    *)
(***************************************************************************)
C12_NoMatchIsNotFound ==
    reg.pc = "done" =>
        IF \E i \in 1 .. Len(reg.devices) : reg.devices[i] = reg.dev
        THEN reg.zram # NULL /\ reg.devices[reg.zram] = reg.dev
        ELSE reg.zram = NULL

(***************************************************************************)
(* C13: while the total of every statistic has been nonnegative at every   *)
(* instant, no zram_get_stat raises the WARN_ON, whatever updates of other *)
(* shards run beside its reads.  It fails: the shards are read one after   *)
(* the other, so a sum can miss an increment of a shard read already and   *)
(* take a later decrement of a shard not yet read.                          *)
(***************************************************************************)
C13_NoWarnWhileTotalNonNegative ==
    (gs.pc = "done" /\ ~neg_seen) => ~gs.warned

(***************************************************************************)
(* C14: when the s64 sum zram_get_stat has accumulated is negative, it     *)
(* raises the WARN_ON and returns the sum modulo 2^64; when the sum is not *)
(* negative it returns the sum and raises nothing.                          *)
(***************************************************************************)
C14_NegativeSumWarnsAndWraps ==
    gs.pc = "done" =>
        /\ gs.val < 0 => (gs.warned /\ gs.ret = gs.val + U64_MOD)
        /\ gs.val >= 0 => (~gs.warned /\ gs.ret = gs.val)

\* a sum of -1, flagged and returned as 2^64 - 1
C14_Witness ==
    /\ gs.pc = "done"
    /\ gs.val = -1
    /\ gs.warned
    /\ gs.ret = U64_MOD - 1

\* a mem_used_total_show call has run to its return
MemUsedTotalDone == st.pc = "done" /\ st.attr = "mem_used_total"
\* an orig_data_size_show call has run to its return
OrigDataSizeDone == st.pc = "done" /\ st.attr = "orig_data_size"

(***************************************************************************)
(* C15: mem_used_total_show prints 0 whenever init_done is false, whatever *)
(* the pool and the pages_expand counter hold, and does not ask the pool;  *)
(* whenever init_done is true it prints the pool's bytes plus the          *)
(* pages_expand sum shifted left by PAGE_SHIFT, in u64 arithmetic.         *)
(***************************************************************************)
C15_MemUsedTotal ==
    MemUsedTotalDone =>
        /\ st.out[Len(st.out)] = "\n"
        /\ ~init_done => (ShownValue(st.out) = 0 /\ ~st.pool)
        /\ init_done =>
              ShownValue(st.out) =
                (pool_total + ShlPage(ToU64(total["ZRAM_STAT_PAGES_EXPAND"])))
                  % U64_MOD

\* one page in the pool and one expanded page: two pages shown
C15_Witness ==
    /\ MemUsedTotalDone
    /\ init_done
    /\ pool_total = PAGE_SIZE
    /\ total["ZRAM_STAT_PAGES_EXPAND"] = 1
    /\ ShownValue(st.out) = 2 * PAGE_SIZE

(***************************************************************************)
(* C16: orig_data_size_show prints the pages_stored sum shifted left by    *)
(* PAGE_SHIFT, in u64 arithmetic, for every value of the counter, 0        *)
(* included, whether the device is initialized or not.                      *)
(***************************************************************************)
C16_OrigDataSize ==
    OrigDataSizeDone =>
        /\ st.out[Len(st.out)] = "\n"
        /\ ShownValue(st.out) =
             ShlPage(ToU64(total["ZRAM_STAT_PAGES_STORED"]))
        /\ total["ZRAM_STAT_PAGES_STORED"] = 0 => ShownValue(st.out) = 0

\* two pages stored in a device not initialized: 8192 shown
C16_Witness ==
    /\ OrigDataSizeDone
    /\ ~init_done
    /\ total["ZRAM_STAT_PAGES_STORED"] = 2
    /\ st.out = <<"8", "1", "9", "2", "\n">>

\* the next step of the update in flight on cpu c can be taken, and an
\* update can begin on an idle cpu while the bound allows one
WriterCanStep(c) ==
    /\ wr[c].pc = "lo" => ENABLED zram_add_stat_lo(c)
    /\ wr[c].pc = "hi" => ENABLED zram_add_stat_hi(c)
    /\ wr[c].pc = "end" => ENABLED zram_add_stat_end(c)
    /\ (wr[c].pc = "idle" /\ n_inc < MaxIncs) =>
          \A idx \in ZRAM_STATS, delta \in Deltas :
              ENABLED zram_add_stat_begin(c, idx, delta)

(***************************************************************************)
(* C17: a writer never waits for a reader: whatever zram_get_stat is doing *)
(* an update can begin, take its next step, and it completes; and every    *)
(* zram_get_stat call comes to its return, the updates being finitely      *)
(* many.                                                                    *)
(***************************************************************************)
C17_WritersFreeReadersFinish ==
    /\ [](\A c \in CPUS : WriterCanStep(c))
    /\ \A c \in CPUS : (wr[c].pc # "idle") ~> (wr[c].pc = "idle")
    /\ (gs.pc # "idle") ~> (gs.pc = "done")

\* a sum has returned, and MaxIncs updates began and completed beside it
C17_Witness ==
    /\ gs.pc = "done"
    /\ gs.n0 = 0
    /\ n_inc = MaxIncs
    /\ \A c \in CPUS : wr[c].pc = "idle"

\* a read handler that has returned has printed a decimal number
ReadsSucceed ==
    /\ sh.pc = "done" => ValidDecimal(sh.out)
    /\ st.pc = "done" => ValidDecimal(st.out)
    /\ gs.pc = "done" => gs.ret \in 0 .. U64_MOD - 1

(***************************************************************************)
(* C18: init_done goes from true to false only in the zram_reset_device    *)
(* step of a reset_store whose payload is a nonzero number and whose block *)
(* device had no holders; the steps of disksize_store, the steps of a      *)
(* reset_store other than that one (every failed reset among them) and the *)
(* steps of every read leave init_done and every counter as they were; the *)
(* steps of every read leave the whole descriptor as it was, and every     *)
(* read returns a number, initialized or not.  One operation at a time.    *)
(***************************************************************************)
C18_Frame ==
    /\ []ReadsSucceed
    /\ [][/\ (init_done /\ ~init_done') =>
                /\ rs.pc = "reset" /\ rs'.pc = "done"
                /\ ValidDecimal(rs.buf) /\ PayloadValue(rs.buf) # 0
                /\ rs.bdev = "bdev" => bd_holders = 0
          /\ (ds' # ds \/ (rs' # rs /\ rs.pc # "reset")) =>
                UNCHANGED <<init_done, count>>
          /\ (sh' # sh \/ st' # st \/ gs' # gs) =>
                UNCHANGED <<zram_vars, pool_total>>
       ]_vars

\* a reset refused for a holder, on an initialized device whose counters
\* are not all zero: nothing has changed
C18_Witness ==
    /\ ResetDone
    /\ rs.ret = -EBUSY
    /\ init_done
    /\ count # ZeroCount
    /\ pool_total > 0
    /\ DescrUnchanged

(***************************************************************************)
(* C19: no step of disksize_store changes disksize at a moment when        *)
(* init_done is true, whatever the moment at which the I/O path activates  *)
(* the device.  It fails: init_done is looked at once, at the start, and   *)
(* an activation that comes after that look does not stop the store.       *)
(***************************************************************************)
C19_NoSizeChangeOnceInitialized ==
    [][(ds' # ds /\ disksize' # disksize) => ~init_done]_vars

(***************************************************************************)
(* C20: reset_store never reads bd_holders of a block device that          *)
(* bdget_disk did not return: the NULL check comes before the read.  It    *)
(* fails: bdev->bd_holders is read first, and bdev is compared with NULL   *)
(* only before the flush.                                                   *)
(***************************************************************************)
C20_NoHolderReadOfAbsentBdev ==
    rs.deref # "NULL"
=============================================================================
